---- MODULE Spec2Model ----
(***************************************************************************)
(* Model of src/app.py: the Streamlit script that composes an initial      *)
(* temperature field on a 50 m grid and advances it by explicit finite-    *)
(* difference diffusion, rendering after every step.                       *)
(*                                                                         *)
(* Arithmetic is exact.  Python floats are replaced by fixed-point         *)
(* integers: a temperature t degrees C is stored as t * Unit, where        *)
(* Unit = (size_y - 1) * 4^steps makes both the linspace depths (multiples *)
(* of 1/(size_y-1) km) and `steps` successive multiplications by the       *)
(* stencil coefficient exact.  Times are kept in hundredths of a           *)
(* kilosecond (10 s), so that the factors 1 + 0.00*frame and 1 + 0.01*i    *)
(* are the integers 100 + 0*frame and 100 + 1*i.                           *)
(***************************************************************************)
EXTENDS Integers, Sequences, FiniteSets, TLC

VARIABLES
    inputs,           \* the sidebar widgets' values (lines 8-20)
    run_simulation,   \* st.sidebar.button("Run Simulation") (line 66)
    temperature,      \* the working field (line 38); <<>> before allocation
    new_temperature,  \* the scratch field of a sweep (line 75)
    frame,            \* loop variable of the time stepping loop (line 72)
    i,                \* loop variable of the row loop (line 77)
    dt,               \* time step of the current frame, in 10 s (line 74)
    progress,         \* value shown by the progress bar (line 83)
    time_years,       \* elapsed time of the title (line 92), a fraction
    step_label,       \* step index of the title (line 93)
    pc                \* position in the script

vars == <<inputs, run_simulation, temperature, new_temperature, frame, i, dt,
          progress, time_years, step_label, pc>>

----------------------------------------------------------------------------
(* Bounds of the model *)

\* steps is drawn from 1..MaxSteps (the widget allows 1..4000)
MaxSteps == 2

----------------------------------------------------------------------------
(* Sidebar inputs, lines 8-20.  Each set holds values the widget permits   *)
(* (min_value <= v <= max_value on the step grid).  The two float widgets  *)
(* are in metres: vertical_body_width_m = vertical_body_width_km * 1000.   *)

DomainXValues == {4}
DomainYValues == {4, 6}
VerticalWidthValues == {50, 100}
HorizontalLengthValues == {2, 3}
HorizontalDepthValues == {500}
THotValues == {500, 1300}
TSurfaceValues == {-63}
TgradientValues == {100}
StepsValues == 1..MaxSteps

Inputs ==
    [domain_size_x_km : DomainXValues,
     domain_size_y_km : DomainYValues,
     vertical_body_width_m : VerticalWidthValues,
     horizontal_body_length_km : HorizontalLengthValues,
     horizontal_body_depth_m : HorizontalDepthValues,
     T_hot : THotValues,
     T_surface : TSurfaceValues,
     Tgradient : TgradientValues,
     steps : StepsValues]

domain_size_x_km == inputs.domain_size_x_km
domain_size_y_km == inputs.domain_size_y_km
vertical_body_width_m == inputs.vertical_body_width_m
horizontal_body_length_km == inputs.horizontal_body_length_km
horizontal_body_depth_m == inputs.horizontal_body_depth_m
T_hot == inputs.T_hot
T_surface == inputs.T_surface
Tgradient == inputs.Tgradient
steps == inputs.steps

----------------------------------------------------------------------------
(* Physical and numerical parameters, lines 27-36 *)

\* dx = dy = 50, grid spacing in metres
dx == 50
dy == dx

\* alpha = 1e-6 m^2/s = alpha_num/alpha_den m^2/ks
alpha_num == 1
alpha_den == 1000

\* dt_initial = 2 * (dx ** 2) / (4 * alpha) * 0.5, in kiloseconds
dt_initial == (((2 * (dx * dx)) * alpha_den) \div (4 * alpha_num)) \div 2

\* the factor 0.00 of line 74 and the factor 0.01 of line 92, in hundredths
StepGrowth == 0
ReportGrowth == 1

\* slip: the growth factor 0.01 of line 92 used in line 74 as well
FrameDtGrowing(fr) == dt_initial * (100 + ReportGrowth * fr)

\* dt = dt_initial * (1 + 0.00 * frame), in hundredths of a kilosecond
FrameDt(fr) == dt_initial * (100 + StepGrowth * fr)

\* alpha * dt / dx**2 as the fraction CoefNum(d) / CoefDen
CoefNum(d) == alpha_num * d
CoefDen == (alpha_den * 100) * (dx * dx)

size_x == (domain_size_x_km * 1000) \div dx
size_y == (domain_size_y_km * 1000) \div dy

----------------------------------------------------------------------------
(* Fixed-point representation of temperatures *)

RECURSIVE Pow4(_)
Pow4(n) == IF n = 0 THEN 1 ELSE 4 * Pow4(n - 1)

Unit == (size_y - 1) * Pow4(steps)

Min(a, b) == IF a < b THEN a ELSE b
Max(a, b) == IF a > b THEN a ELSE b

----------------------------------------------------------------------------
(* Initial condition, lines 38-58 *)

Rows == 0 .. (size_x - 1)
Cols == 0 .. (size_y - 1)

\* np.zeros((size_x, size_y))
Zeros == [a \in Rows |-> [b \in Cols |-> 0]]

\* T_surface + Tgradient * depth[j], depth = np.linspace(0, domain_size_y_km, size_y)
Background(j) == T_surface * Unit + Tgradient * (j * domain_size_y_km) * Pow4(steps)

GradientFill(f) ==
    LET column == [b \in Cols |-> Background(b)]
    IN  [a \in Rows |-> column]

\* a slice bound of numpy: negative counts from the end, and it is clipped
SliceBound(k, n) == IF k < 0 THEN Max(k + n, 0) ELSE Min(k, n)
InSlice(k, lo, hi, n) == 0 <= k /\ k < n /\ SliceBound(lo, n) <= k /\ k < SliceBound(hi, n)

x_center == size_x \div 2
width == vertical_body_width_m \div dx
x_start == x_center
x_end == x_start + ((horizontal_body_length_km * 1000) \div dx)
y_start == 0
y_end == horizontal_body_depth_m \div dy

\* temperature[x_center - width//2 : x_center + width//2, :] = T_hot
InVerticalBand(a) == InSlice(a, x_center - (width \div 2), x_center + (width \div 2), size_x)
VerticalBody(f) ==
    LET hot == T_hot * Unit
    IN  [a \in Rows |-> IF InVerticalBand(a) THEN [b \in Cols |-> hot] ELSE f[a]]

\* temperature[x_start:x_end, y_start:y_end] = T_hot
InHorizontalRows(a) == InSlice(a, x_start, x_end, size_x)
InHorizontalCols(b) == InSlice(b, y_start, y_end, size_y)
HorizontalBody(f) ==
    LET hot == T_hot * Unit
    IN  [a \in Rows |-> IF InHorizontalRows(a)
                        THEN [b \in Cols |-> IF InHorizontalCols(b) THEN hot ELSE f[a][b]]
                        ELSE f[a]]

\* slip: line 58 left out, the hot body keeps the surface cells it covers
SurfaceClampOmitted(f) == f

\* temperature[:, 0] = T_surface
SurfaceClamp(f) ==
    LET cold == T_surface * Unit
    IN  [a \in Rows |-> [f[a] EXCEPT ![0] = cold]]

\* slip: the surface clamp applied before the horizontal body
InitialFieldClampEarly == HorizontalBody(SurfaceClamp(VerticalBody(GradientFill(Zeros))))

InitialField == SurfaceClamp(HorizontalBody(VerticalBody(GradientFill(Zeros))))

----------------------------------------------------------------------------
(* The script *)

NoYears == [num |-> 0, den |-> 1]

Init ==
    /\ inputs \in Inputs
    /\ run_simulation = FALSE
    /\ temperature = <<>>
    /\ new_temperature = <<>>
    /\ frame = 0
    /\ i = 0
    /\ dt = FrameDt(0)
    /\ progress = <<0, 1>>
    /\ time_years = NoYears
    /\ step_label = 0
    /\ pc = "setup"

\* lines 27-63: parameters, allocation and initial condition
Setup ==
    /\ pc = "setup"
    /\ temperature' = InitialField
    /\ pc' = "button"
    /\ UNCHANGED <<inputs, run_simulation, new_temperature, frame, i, dt,
                   progress, time_years, step_label>>

\* lines 66-69: the button's value decides whether the loop runs
Button ==
    /\ pc = "button"
    /\ \E pressed \in BOOLEAN :
          /\ run_simulation' = pressed
          /\ pc' = IF pressed THEN "loop" ELSE "end"
    /\ UNCHANGED <<inputs, temperature, new_temperature, frame, i, dt,
                   progress, time_years, step_label>>

----------------------------------------------------------------------------
(* Time stepping loop, lines 72-103 *)

RECURSIVE GCD(_, _)
GCD(a, b) == IF b = 0 THEN a ELSE GCD(b, a % b)

\* alpha * dt / dx**2 in lowest terms
Coefficient(d) ==
    LET g == GCD(CoefNum(d), CoefDen)
    IN  [num |-> CoefNum(d) \div g, den |-> CoefDen \div g]

\* slip: the term - 4 * temperature[i, j] dropped from the stencil
StencilNoCentre(old, a, b, c) ==
    old[a][b] + (c.num * (old[a + 1][b] + old[a - 1][b] + old[a][b + 1] + old[a][b - 1]))
                \div c.den

\* lines 79-80: the five-point update of cell (a, b), read from field old
Stencil(old, a, b, c) ==
    old[a][b] + (c.num * (old[a + 1][b] + old[a - 1][b] + old[a][b + 1] + old[a][b - 1]
                          - 4 * old[a][b])) \div c.den

\* slip: the update written into and read from the same array (no copy), so
\* row a reads the row a - 1 that this sweep has already updated
SweepRowInPlace(scratch, old, a, c) ==
    [b \in Cols |-> IF 1 <= b /\ b < size_y - 1 THEN Stencil(scratch, a, b, c) ELSE scratch[a][b]]

\* line 78: for j in range(1, size_y - 1), for the row a of the scratch field
SweepRowOf(scratch, old, a, c) ==
    [b \in Cols |-> IF 1 <= b /\ b < size_y - 1 THEN Stencil(old, a, b, c) ELSE scratch[a][b]]

\* slip: a fresh zero array (np.zeros_like) instead of a copy
ScratchZeros(f) == [a \in Rows |-> [b \in Cols |-> 0]]

\* line 75: new_temperature = temperature.copy()
ScratchOf(f) == f

\* slip: range(steps - 1), one sweep short
LoopBoundShort == steps - 1

\* line 72: for frame in range(steps)
LoopBound == steps

\* line 72, 74, 75: the loop takes its next frame
FrameBegin ==
    /\ pc = "loop"
    /\ frame < LoopBound
    /\ dt' = FrameDt(frame)
    /\ new_temperature' = ScratchOf(temperature)
    /\ i' = 1
    /\ pc' = "sweep"
    /\ UNCHANGED <<inputs, run_simulation, temperature, frame, progress,
                   time_years, step_label>>

\* line 72: range(steps) is exhausted
LoopExit ==
    /\ pc = "loop"
    /\ frame >= LoopBound
    /\ pc' = "end"
    /\ UNCHANGED <<inputs, run_simulation, temperature, new_temperature, frame, i,
                   dt, progress, time_years, step_label>>

\* slip: line 75 without .copy(), so that new_temperature is the working
\* array itself: each row written is at once part of the working field, and
\* the next row reads it
SweepRowAliased ==
    /\ pc = "sweep"
    /\ i < size_x - 1
    /\ new_temperature' =
          [new_temperature EXCEPT ![i] = SweepRowOf(new_temperature, new_temperature, i, Coefficient(dt))]
    /\ temperature' = new_temperature'
    /\ i' = i + 1
    /\ pc' = IF i + 1 < size_x - 1 THEN "sweep" ELSE "commit"
    /\ UNCHANGED <<inputs, run_simulation, frame, dt, progress, time_years, step_label>>

\* lines 77-80: one iteration of the loop over i, the whole loop over j
SweepRow ==
    /\ pc = "sweep"
    /\ i < size_x - 1
    /\ new_temperature' =
          [new_temperature EXCEPT ![i] = SweepRowOf(new_temperature, temperature, i, Coefficient(dt))]
    /\ i' = i + 1
    /\ pc' = IF i + 1 < size_x - 1 THEN "sweep" ELSE "commit"
    /\ UNCHANGED <<inputs, run_simulation, temperature, frame, dt, progress,
                   time_years, step_label>>

\* line 82: temperature[:] = new_temperature
Commit ==
    /\ pc = "commit"
    /\ temperature' = new_temperature
    /\ pc' = "progress"
    /\ UNCHANGED <<inputs, run_simulation, new_temperature, frame, i, dt, progress,
                   time_years, step_label>>

\* line 83: progress_bar.progress((frame + 1) / steps)
Progress ==
    /\ pc = "progress"
    /\ progress' = <<frame + 1, steps>>
    /\ pc' = "render"
    /\ UNCHANGED <<inputs, run_simulation, temperature, new_temperature, frame, i,
                   dt, time_years, step_label>>

\* line 92: sum(dt_initial * (1 + 0.01 * i) for i in range(frame + 1)), in 10 s
RECURSIVE ReportedElapsed(_)
ReportedElapsed(fr) ==
    IF fr < 0 THEN 0
    ELSE ReportedElapsed(fr - 1) + dt_initial * (100 + ReportGrowth * fr)

\* line 92: / 86400 / 365.24, of a time in 10 s, as a fraction of integers
SecondsPerDay == 86400
DaysPerYear100 == 36524
ToYears(t) == [num |-> t * 5, den |-> (SecondsPerDay \div 200) * DaysPerYear100]

\* lines 86-103: the plot of the committed field, its title, and the next frame
Render ==
    /\ pc = "render"
    /\ time_years' = ToYears(ReportedElapsed(frame))
    /\ step_label' = frame + 1
    /\ frame' = frame + 1
    /\ pc' = "loop"
    /\ UNCHANGED <<inputs, run_simulation, temperature, new_temperature, i, dt,
                   progress>>

Next ==
    \/ Setup
    \/ Button
    \/ FrameBegin
    \/ SweepRow
    \/ Commit
    \/ Progress
    \/ Render
    \/ LoopExit

Spec == Init /\ [][Next]_vars

\* the script runs to its end: every statement is eventually executed
FairSpec == Spec /\ WF_vars(Next)

----------------------------------------------------------------------------
(* Vocabulary of the properties *)

\* the field exists: setup has allocated and composed it
Allocated == pc # "setup"

\* the number of sweeps committed to the working field
Committed == IF pc \in {"progress", "render"} THEN frame + 1 ELSE frame

\* the positions between sweeps: where the script calls into Streamlit (which
\* is where a stop request is honoured) or has ended
Observable == pc \in {"button", "loop", "progress", "render", "end"}

Interior(a, b) == 1 <= a /\ a <= size_x - 2 /\ 1 <= b /\ b <= size_y - 2

\* one synchronous sweep with the coefficient 0.25: every interior cell from
\* the values of f alone
JacobiSweep(f) ==
    [a \in Rows |->
        [b \in Cols |->
            IF Interior(a, b)
            THEN f[a][b] + (f[a + 1][b] + f[a - 1][b] + f[a][b + 1] + f[a][b - 1]
                            - 4 * f[a][b]) \div 4
            ELSE f[a][b]]]

\* f itself; the comparison makes TLC build the table of f once, where it
\* would otherwise re-evaluate the defining expression at every application
Evaluated(f) == IF f = f THEN f ELSE f

\* f advanced by k synchronous sweeps
RECURSIVE Advance(_, _)
Advance(f, k) == IF k = 0 THEN Evaluated(f) ELSE JacobiSweep(Evaluated(Advance(f, k - 1)))

ValuesOf(f) == {f[a][b] : a \in Rows, b \in Cols}
MinOf(S) == CHOOSE m \in S : \A v \in S : m <= v
MaxOf(S) == CHOOSE m \in S : \A v \in S : v <= m

\* the time the stencil has advanced the field by after k steps, in 10 s
RECURSIVE UsedElapsed(_)
UsedElapsed(k) == IF k = 0 THEN 0 ELSE UsedElapsed(k - 1) + FrameDt(k - 1)

----------------------------------------------------------------------------
(* C1. Surface boundary: from the composed initial field on, and after     *)
(* every committed step, every cell of the surface line j = 0 holds        *)
(* T_surface.                                                              *)
C1_SurfaceInvariant ==
    Allocated => \A a \in Rows : temperature[a][0] = T_surface * Unit

\* the last step of a run has been committed, and the cell of the surface
\* line that the horizontal hot body covers holds T_surface
C1_Witness ==
    /\ pc = "end"
    /\ run_simulation
    /\ step_label = steps
    /\ steps >= 2
    /\ y_end > 0
    /\ temperature[x_center][0] = T_surface * Unit
    /\ temperature[x_center][1] # T_surface * Unit

(* C2 as stated. After every step every interior cell lies between         *)
(* min(T_surface, initial_min) and T_hot, where initial_min is the minimum *)
(* of the composed initial field.                                          *)
C2_BoundedByTHot ==
    (Observable /\ Committed >= 1) =>
        LET lower == Min(T_surface * Unit, MinOf(ValuesOf(Evaluated(InitialField))))
        IN  \A a \in Rows : \A b \in Cols :
                Interior(a, b) =>
                    (lower <= temperature[a][b] /\ temperature[a][b] <= T_hot * Unit)

(* C2 amended. After every step every interior cell lies between          *)
(* min(T_surface, initial_min) and max(T_hot, initial_max), the extremes   *)
(* of the composed initial field.                                          *)
C2_BoundedByInitialExtremes ==
    (Observable /\ Committed >= 1) =>
        LET initial == ValuesOf(Evaluated(InitialField))
            lower == Min(T_surface * Unit, MinOf(initial))
            upper == Max(T_hot * Unit, MaxOf(initial))
        IN  \A a \in Rows : \A b \in Cols :
                Interior(a, b) =>
                    (lower <= temperature[a][b] /\ temperature[a][b] <= upper)

\* two steps are committed in a run whose background exceeds T_hot at depth,
\* and an interior cell above T_hot is still within the initial extremes
C2_Witness ==
    /\ Observable
    /\ Committed = 2
    /\ Background(size_y - 1) > T_hot * Unit
    /\ \E b \in Cols :
          /\ Interior(1, b)
          /\ temperature[1][b] > T_hot * Unit
          /\ temperature[1][b] <= Background(size_y - 1)

(* C3 as stated. The elapsed time reported after step k equals the sum of  *)
(* the time steps the stencil used in steps 1..k, which is k * dt with the *)
(* fixed dt = 2*dx^2/(4*alpha)*0.5, converted to years.                    *)
C3_ReportedIsUsedTime ==
    step_label >= 1 =>
        /\ time_years = ToYears(UsedElapsed(step_label))
        /\ time_years = ToYears(step_label * (dt_initial * 100))

\* the index ranges of the hot bodies, as setup computes them
VerticalRangeEmpty == x_center - (width \div 2) >= x_center + (width \div 2)
HorizontalRangeLeavesGrid == x_end > size_x
GeometryInvalid == VerticalRangeEmpty \/ HorizontalRangeLeavesGrid \/ width = 0

(* C4 as stated. If a hot body's index range is empty or leaves the grid,  *)
(* setup ends in an error before any stepping and no temperature field is  *)
(* allocated or mutated.                                                   *)
C4_InvalidGeometryRejected ==
    GeometryInvalid =>
        /\ temperature = <<>>
        /\ new_temperature = <<>>
        /\ pc \notin {"button", "loop", "sweep", "commit", "progress", "render"}
        /\ frame = 0

(* C5. Synchronous sweep: when a sweep is complete, every interior cell of *)
(* the scratch field equals old + 0.25 * (the four neighbours - 4 * old),  *)
(* all five operands being values of the field as it was before the step   *)
(* began (which the working field still holds until the commit).           *)
C5_JacobiSweep ==
    pc = "commit" =>
        \A a \in Rows : \A b \in Cols :
            Interior(a, b) =>
                4 * (new_temperature[a][b] - temperature[a][b]) =
                    temperature[a + 1][b] + temperature[a - 1][b]
                    + temperature[a][b + 1] + temperature[a][b - 1]
                    - 4 * temperature[a][b]

\* the second sweep of a run is complete and has changed a cell whose
\* neighbour in the previous row was changed by the same sweep
C5_Witness ==
    /\ pc = "commit"
    /\ frame = 1
    /\ \E a \in Rows : \E b \in Cols :
          /\ Interior(a, b) /\ Interior(a - 1, b)
          /\ new_temperature[a][b] # temperature[a][b]
          /\ new_temperature[a - 1][b] # temperature[a - 1][b]

C7_InitialPrecedence ==
    pc = "button" =>
        \A a \in Rows : \A b \in Cols :
            temperature[a][b] =
                IF b = 0 THEN T_surface * Unit
                ELSE IF x_center <= a /\ a < x_end /\ b < y_end THEN T_hot * Unit
                ELSE IF x_center - (width \div 2) <= a /\ a < x_center + (width \div 2)
                     THEN T_hot * Unit
                ELSE Pow4(steps) * (T_surface * (size_y - 1) + Tgradient * b * domain_size_y_km)

\* the two bodies overlap below the surface: the overlap is hot, the surface
\* cell above it is not, and a cell outside both bodies holds the background
C7_Witness ==
    /\ pc = "button"
    /\ width >= 2
    /\ y_end >= 2
    /\ temperature[x_center][1] = T_hot * Unit
    /\ temperature[x_center][0] = T_surface * Unit
    /\ temperature[0][1] # T_hot * Unit

(* C8. Frozen side and bottom boundaries: every cell with i = 0,           *)
(* i = size_x - 1 or j = size_y - 1 holds, after any number of steps, the  *)
(* value the initial-condition composition gave it.                        *)
C8_FrozenBoundaries ==
    Allocated =>
        LET initial == InitialField
        IN  /\ temperature[0] = initial[0]
            /\ temperature[size_x - 1] = initial[size_x - 1]
            /\ \A a \in Rows : temperature[a][size_y - 1] = initial[a][size_y - 1]

\* after the last of several steps the vertical body's cell on the bottom
\* edge is still hot and the corner still holds the background
C8_Witness ==
    /\ pc = "end"
    /\ step_label = steps
    /\ steps >= 2
    /\ width >= 2
    /\ temperature[x_center][size_y - 1] = T_hot * Unit
    /\ temperature[0][size_y - 1] = Background(size_y - 1)
    /\ temperature[x_center + 1][size_y - 2] # Background(size_y - 2)

(* C9. Whole-sweep visibility: once allocated, the working field changes   *)
(* only at the commit that ends a sweep; wherever the run can be observed  *)
(* or stopped the field is the initial field advanced by exactly the       *)
(* number of committed sweeps, between 0 and steps; and the step label of  *)
(* the title is that number.                                               *)
C9_WholeSweepVisibility ==
    /\ [](Observable =>
            /\ Committed \in 0 .. steps
            /\ temperature = Advance(InitialField, Committed)
            /\ (pc \in {"loop", "end"} => step_label = Committed))
    /\ [][(Allocated /\ temperature' # temperature) => pc = "commit"]_vars

\* the snapshot of the second step is about to be rendered, and differs
\* from the snapshot of the first
C9_Witness ==
    /\ pc = "render"
    /\ frame = 1
    /\ temperature = Advance(InitialField, 2)
    /\ temperature # Advance(InitialField, 1)

(* C10. Termination with the exact step count: a run that has started      *)
(* reaches the end of the script, having committed exactly `steps` sweeps: *)
(* the field is the initial field advanced by `steps` synchronous sweeps   *)
(* and the last step label is `steps`.                                     *)
C10_TerminatesAfterSteps ==
    (pc = "loop") ~> (/\ pc = "end"
                      /\ frame = steps
                      /\ step_label = steps
                      /\ progress = <<steps, steps>>
                      /\ temperature = Advance(InitialField, steps))

\* a run of several steps has ended
C10_Witness ==
    /\ pc = "end"
    /\ run_simulation
    /\ steps >= 2
    /\ frame = steps
    /\ step_label = steps

====
